---- MODULE Spec2Model ----
(***************************************************************************)
(* Model of the two RapidAPI clients of bjornpagen/youtube-apis:           *)
(*   mediadownloader (GetChannelVideos) and transcriptor (GetTranscript).  *)
(* Strings are sequences of one-character strings, so that formatting and  *)
(* slicing are computed and not assumed.                                   *)
(***************************************************************************)
EXTENDS Integers, Sequences, FiniteSets, TLC

VARIABLES client, newCall, calls, strIn, strOut

vars == <<client, newCall, calls, strIn, strOut>>

(***************************************************************************)
(* Bounds of the model.                                                    *)
(***************************************************************************)
MaxOpts == 2
MaxCallOpts == 2
MaxSegments == 3
NumCallers == 2

(***************************************************************************)
(* Text.                                                                   *)
(***************************************************************************)
\* A control character: url.Parse (inside http.NewRequest) rejects it.
CTL == "\n"

SchemePrefix == <<"h", "t", "t", "p", "s", ":", "/", "/">>
DefaultHostMD == <<"y", "o", "u", "t", "u", "b", "e", "-", "m", "e", "d", "i", "a", "-", "d", "o", "w", "n", "l", "o", "a", "d", "e", "r", ".", "p", ".", "r", "a", "p", "i", "d", "a", "p", "i", ".", "c", "o", "m">>
DefaultHostTR == <<"y", "o", "u", "t", "u", "b", "e", "-", "t", "r", "a", "n", "s", "c", "r", "i", "p", "t", "o", "r", ".", "p", ".", "r", "a", "p", "i", "d", "a", "p", "i", ".", "c", "o", "m">>
ChannelVideosPath == <<"/", "v", "2", "/", "c", "h", "a", "n", "n", "e", "l", "/", "v", "i", "d", "e", "o", "s", "?", "c", "h", "a", "n", "n", "e", "l", "I", "d", "=">>
TranscriptPath == <<"/", "t", "r", "a", "n", "s", "c", "r", "i", "p", "t", "?", "v", "i", "d", "e", "o", "_", "i", "d", "=">>
LangParam == <<"&", "l", "a", "n", "g", "=">>
DefaultLang == <<"e", "n">>

DefaultRateMD == 3
DefaultRateTR == 10

Kinds == {"mediadownloader", "transcriptor"}

DefaultHost(kind) == IF kind = "mediadownloader" THEN DefaultHostMD ELSE DefaultHostTR
DefaultRate(kind) == IF kind = "mediadownloader" THEN DefaultRateMD ELSE DefaultRateTR

\* http.NewRequest("GET", url, nil) returns an error iff the URL does not
\* parse; over the alphabet of the model that is: it holds a control character.
NewRequestFails(url) == \E i \in 1..Len(url) : url[i] = CTL

(***************************************************************************)
(* Errors: the chain of message layers, outermost first.  fmt.Errorf with  *)
(* %w puts a new layer in front of the wrapped error.                      *)
(***************************************************************************)
NoErr == <<>>
Errorf(prefix, err) == <<prefix>> \o err
Unwrap(err) == Tail(err)
ParseError(url) == <<"parse: net/url: invalid control character in URL: ">> \o url

(***************************************************************************)
(* Construction options.  A limiter is its admission rate per second (0 is *)
(* the nil pointer); a transport is a handle ("nil" is the nil pointer).   *)
(***************************************************************************)
NilLimiter == 0
NilHttpClient == "nil"
DefaultClient == "http.DefaultClient"

ZeroOptions == [host |-> <<>>, rateLimit |-> NilLimiter, httpClient |-> NilHttpClient]

OptWithHost(h) == [op |-> "WithHost", host |-> h, rl |-> NilLimiter, hc |-> NilHttpClient]
OptWithRateLimit(r) == [op |-> "WithRateLimit", host |-> <<>>, rl |-> r, hc |-> NilHttpClient]
OptWithHttpClient(t) == [op |-> "WithHttpClient", host |-> <<>>, rl |-> NilLimiter, hc |-> t]

\* The closure WithHost returns, applied to the options o.
WithHost(h, o) ==
    IF NewRequestFails(SchemePrefix \o h)
    THEN [o |-> o, err |-> Errorf("invalid host: ", ParseError(SchemePrefix \o h))]
    ELSE [o |-> [o EXCEPT !.host = h], err |-> NoErr]

WithRateLimit(rl, o) == [o |-> [o EXCEPT !.rateLimit = rl], err |-> NoErr]

WithHttpClient(hc, o) == [o |-> [o EXCEPT !.httpClient = hc], err |-> NoErr]

\* err := opt(o)
ApplyOption(opt, o) ==
    CASE opt.op = "WithHost" -> WithHost(opt.host, o)
      [] opt.op = "WithRateLimit" -> WithRateLimit(opt.rl, o)
      [] opt.op = "WithHttpClient" -> WithHttpClient(opt.hc, o)

\* The error the option opts[i] produces on its own (NoErr when it validates).
OptionErr(opt) == ApplyOption(opt, ZeroOptions).err

NoClient == [ok |-> FALSE, apiKey |-> <<>>, options |-> ZeroOptions]

\* Mutant: a failing option does not stop the loop.
RECURSIVE NewLoopNoStop(_, _, _, _)
NewLoopNoStop(opts, i, o, applied) ==
    IF i > Len(opts)
    THEN [o |-> o, err |-> NoErr, applied |-> applied]
    ELSE LET r == ApplyOption(opts[i], o)
         IN  NewLoopNoStop(opts, i + 1, r.o, Append(applied, i))

\* Mutant: the option's error is returned as it is, without the new layer.
RECURSIVE NewLoopNoWrap(_, _, _, _)
NewLoopNoWrap(opts, i, o, applied) ==
    IF i > Len(opts)
    THEN [o |-> o, err |-> NoErr, applied |-> applied]
    ELSE LET r == ApplyOption(opts[i], o)
         IN  IF r.err # NoErr
             THEN [o |-> r.o, err |-> r.err, applied |-> Append(applied, i)]
             ELSE NewLoopNoWrap(opts, i + 1, r.o, Append(applied, i))

\* for _, opt := range opts { err := opt(o); if err != nil { return nil, ... } }
\* applied records the indices of the options that were invoked, in order.
RECURSIVE NewLoop(_, _, _, _)
NewLoop(opts, i, o, applied) ==
    IF i > Len(opts)
    THEN [o |-> o, err |-> NoErr, applied |-> applied]
    ELSE LET r == ApplyOption(opts[i], o)
         IN  IF r.err # NoErr
             THEN [o |-> r.o, err |-> Errorf("bad option: ", r.err),
                   applied |-> Append(applied, i)]
             ELSE NewLoop(opts, i + 1, r.o, Append(applied, i))

\* Mutant: the default limiter replaces a configured one.
WithDefaultsMut(kind, o) ==
    [host |-> IF o.host = <<>> THEN DefaultHost(kind) ELSE o.host,
     rateLimit |-> DefaultRate(kind),
     httpClient |-> IF o.httpClient = NilHttpClient THEN DefaultClient ELSE o.httpClient]

\* The three defaults New fills in after the loop.
WithDefaults(kind, o) ==
    [host |-> IF o.host = <<>> THEN DefaultHost(kind) ELSE o.host,
     rateLimit |-> IF o.rateLimit = NilLimiter THEN DefaultRate(kind) ELSE o.rateLimit,
     httpClient |-> IF o.httpClient = NilHttpClient THEN DefaultClient ELSE o.httpClient]

\* New(apiKey, opts...): the client (NoClient is the nil pointer), the error,
\* and the options that were invoked.
NewImpl(kind, apiKey, opts) ==
    LET r == NewLoop(opts, 1, ZeroOptions, <<>>)
    IN  IF r.err # NoErr
        THEN [client |-> NoClient, err |-> r.err, applied |-> r.applied]
        ELSE [client |-> [ok |-> TRUE, apiKey |-> apiKey,
                          options |-> WithDefaults(kind, r.o)],
              err |-> NoErr, applied |-> r.applied]

(***************************************************************************)
(* Inputs of construction.                                                 *)
(***************************************************************************)
Hosts == {<<>>, <<"a">>, <<"b">>, <<CTL>>}
Rates == {1, 5}
HttpClients == {"hcA"}
ApiKeys == {<<"k">>}

ConfigOptions ==
    {OptWithHost(h) : h \in Hosts} \cup {OptWithRateLimit(r) : r \in Rates}
        \cup {OptWithHttpClient(t) : t \in HttpClients}

SeqsUpTo(S, n) == UNION {[1..k -> S] : k \in 0..n}

ConfigOptionSeqs == SeqsUpTo(ConfigOptions, MaxOpts)

NotCalled == [called |-> FALSE, apiKey |-> <<>>, opts |-> <<>>, err |-> NoErr, applied |-> <<>>]

\* New(apiKey, opts...) of the package kind, called once per package.
New(kind) ==
    /\ ~newCall[kind].called
    /\ \E apiKey \in ApiKeys, opts \in ConfigOptionSeqs :
         LET r == NewImpl(kind, apiKey, opts)
         IN  /\ client' = [client EXCEPT ![kind] = r.client]
             /\ newCall' = [newCall EXCEPT ![kind] =
                    [called |-> TRUE, apiKey |-> apiKey, opts |-> opts,
                     err |-> r.err, applied |-> r.applied]]
    /\ UNCHANGED <<calls, strIn, strOut>>

(***************************************************************************)
(* Response bodies.  A body is JSON text: whether it is syntactically      *)
(* valid, and the members of its top-level object in the order of the      *)
(* text.  A member's value is a boolean, a string, an array of strings or  *)
(* null; an array element stands for the object whose "id" (a video) or    *)
(* "subtitle" (a transcript segment) is that string.                       *)
(***************************************************************************)
JBool(k, x) == [key |-> k, t |-> "bool", b |-> x, s |-> <<>>, a |-> <<>>]
JStr(k, x) == [key |-> k, t |-> "string", b |-> FALSE, s |-> x, a |-> <<>>]
JArr(k, x) == [key |-> k, t |-> "array", b |-> FALSE, s |-> <<>>, a |-> x]
JNull(k) == [key |-> k, t |-> "null", b |-> FALSE, s |-> <<>>, a |-> <<>>]

Body(ok, members) == [syntaxOk |-> ok, members |-> members]
NoBody == Body(FALSE, <<>>)

\* The JSON type each struct field accepts, by its json tag.
FieldTypeMD == [status |-> "bool", nextToken |-> "string", items |-> "array"]
FieldTypeTR == [title |-> "string", transcription |-> "array"]

ZeroResponseMD == [Status |-> FALSE, NextToken |-> <<>>, Items |-> <<>>]
ZeroResponseTR == [Title |-> <<>>, Transcription |-> <<>>]

Video(id) == [ID |-> id]
Transcription(subtitle) == [Subtitle |-> subtitle]

\* Storing one member into the struct: an unknown key and a null leave it
\* alone, a value of the wrong JSON type is an UnmarshalTypeError.
StoreMD(v, m) ==
    IF m.key \notin DOMAIN FieldTypeMD \/ m.t = "null" THEN [ok |-> TRUE, v |-> v]
    ELSE IF m.t # FieldTypeMD[m.key] THEN [ok |-> FALSE, v |-> v]
    ELSE [ok |-> TRUE,
          v |-> CASE m.key = "status" -> [v EXCEPT !.Status = m.b]
                  [] m.key = "nextToken" -> [v EXCEPT !.NextToken = m.s]
                  [] m.key = "items" ->
                       [v EXCEPT !.Items = [i \in 1..Len(m.a) |-> Video(m.a[i])]]]

StoreTR(v, m) ==
    IF m.key \notin DOMAIN FieldTypeTR \/ m.t = "null" THEN [ok |-> TRUE, v |-> v]
    ELSE IF m.t # FieldTypeTR[m.key] THEN [ok |-> FALSE, v |-> v]
    ELSE [ok |-> TRUE,
          v |-> CASE m.key = "title" -> [v EXCEPT !.Title = m.s]
                  [] m.key = "transcription" ->
                       [v EXCEPT !.Transcription =
                            [i \in 1..Len(m.a) |-> Transcription(m.a[i])]]]

\* json.Unmarshal(body, response): the members are stored in order; the
\* first type error is remembered and returned after the rest was stored.
RECURSIVE UnmarshalFrom(_, _, _, _, _)
UnmarshalFrom(kind, members, i, v, ok) ==
    IF i > Len(members) THEN [ok |-> ok, v |-> v]
    ELSE LET r == IF kind = "mediadownloader"
                  THEN StoreMD(v, members[i]) ELSE StoreTR(v, members[i])
         IN  UnmarshalFrom(kind, members, i + 1, r.v, ok /\ r.ok)

Unmarshal(kind, body) ==
    IF ~body.syntaxOk
    THEN [ok |-> FALSE,
          v |-> IF kind = "mediadownloader" THEN ZeroResponseMD ELSE ZeroResponseTR]
    ELSE UnmarshalFrom(kind, body.members, 1,
             IF kind = "mediadownloader" THEN ZeroResponseMD ELSE ZeroResponseTR, TRUE)

(***************************************************************************)
(* Per-call options.                                                       *)
(***************************************************************************)
ContentTypeVideos == "videos"
ContentTypeShorts == "shorts"
ContentTypeLive == "live"
ContentTypeUndefined == ""

ZeroCallOptions == [lang |-> <<>>, contentType |-> ContentTypeUndefined]

OptWithLang(l) == [op |-> "WithLang", lang |-> l, ct |-> ContentTypeUndefined]
OptWithContentType(t) == [op |-> "WithContentType", lang |-> <<>>, ct |-> t]

WithLang(lang, o) == [o |-> [o EXCEPT !.lang = lang], err |-> NoErr]

WithContentType(contentType, o) ==
    [o |-> [o EXCEPT !.contentType = contentType], err |-> NoErr]

ApplyCallOption(opt, o) ==
    CASE opt.op = "WithLang" -> WithLang(opt.lang, o)
      [] opt.op = "WithContentType" -> WithContentType(opt.ct, o)

\* for _, opt := range opts { err := opt(o); if err != nil { return nil, ... } }
RECURSIVE CallLoop(_, _, _)
CallLoop(opts, i, o) ==
    IF i > Len(opts) THEN [o |-> o, err |-> NoErr]
    ELSE LET r == ApplyCallOption(opts[i], o)
         IN  IF r.err # NoErr
             THEN [o |-> r.o, err |-> Errorf("bad option: ", r.err)]
             ELSE CallLoop(opts, i + 1, r.o)

\* if o.lang == "" { o.lang = "en" }
LangOrDefault(lang) == IF lang = <<>> THEN DefaultLang ELSE lang

\* if o.contentType == ContentTypeUndefined { o.contentType = ContentTypeVideos }
ContentTypeOrDefault(ct) == IF ct = ContentTypeUndefined THEN ContentTypeVideos ELSE ct

\* fmt.Sprintf("https://%s/v2/channel/videos?channelId=%s&lang=%s", host, channelID, lang)
ChannelVideosURL(host, channelID, lang) ==
    SchemePrefix \o host \o ChannelVideosPath \o channelID \o LangParam \o lang

\* fmt.Sprintf("https://%s/transcript?video_id=%s&lang=%s", host, videoID, lang)
TranscriptURL(host, videoID, lang) ==
    SchemePrefix \o host \o TranscriptPath \o videoID \o LangParam \o lang

(***************************************************************************)
(* A call.                                                                 *)
(***************************************************************************)
NoReq == [sent |-> FALSE, method |-> "", url |-> <<>>, key |-> <<>>, host |-> <<>>]
NoResp == [status |-> 0, body |-> NoBody, readErr |-> FALSE]
NilTranscript == [set |-> FALSE, v |-> ZeroResponseTR]
NoRet == [Items |-> <<>>, Transcript |-> NilTranscript]
NoCallErr == [msg |-> NoErr, text |-> NoBody]

StatusOK == 200

IdleCall ==
    [pc |-> "idle", kind |-> "", id |-> <<>>, opts |-> <<>>, o |-> ZeroCallOptions,
     url |-> <<>>, takes |-> 0, took |-> NilLimiter, sends |-> 0, via |-> NilHttpClient,
     req |-> NoReq, held |-> FALSE, resp |-> NoResp, closes |-> 0,
     ret |-> NoRet, err |-> NoCallErr]

Callers == DOMAIN calls

\* return nil, err
Return(call, ret, err) == [call EXCEPT !.pc = "done", !.ret = ret, !.err = err]

\* Mutant: the content type is put on the URL as a further parameter.
BeginWithType(c, kind, id, opts) ==
    LET r == CallLoop(opts, 1, ZeroCallOptions)
        o == IF kind = "mediadownloader"
             THEN [lang |-> LangOrDefault(r.o.lang),
                   contentType |-> ContentTypeOrDefault(r.o.contentType)]
             ELSE [r.o EXCEPT !.lang = LangOrDefault(r.o.lang)]
        host == client[kind].options.host
        started == [calls[c] EXCEPT !.kind = kind, !.id = id, !.opts = opts]
    IN  IF r.err # NoErr
        THEN Return(started, NoRet, [msg |-> r.err, text |-> NoBody])
        ELSE [started EXCEPT
                 !.pc = "take", !.o = o,
                 !.url = IF kind = "mediadownloader"
                         THEN ChannelVideosURL(host, id, o.lang)
                                  \o <<"&", "t", "y", "p", "e", "=", o.contentType>>
                         ELSE TranscriptURL(host, id, o.lang)]

\* Mutant: the per-call options are one object shared by the calls of a
\* client, so a call starts from what another call in flight has set.
BeginShared(c, kind, id, opts) ==
    LET others == {d \in DOMAIN calls \ {c} : calls[d].pc # "idle"}
        seed == IF others = {} THEN ZeroCallOptions
                ELSE calls[CHOOSE d \in others : TRUE].o
        r == CallLoop(opts, 1, seed)
        o == IF kind = "mediadownloader"
             THEN [lang |-> LangOrDefault(r.o.lang),
                   contentType |-> ContentTypeOrDefault(r.o.contentType)]
             ELSE [r.o EXCEPT !.lang = LangOrDefault(r.o.lang)]
        host == client[kind].options.host
        started == [calls[c] EXCEPT !.kind = kind, !.id = id, !.opts = opts]
    IN  IF r.err # NoErr
        THEN Return(started, NoRet, [msg |-> r.err, text |-> NoBody])
        ELSE [started EXCEPT
                 !.pc = "take", !.o = o,
                 !.url = IF kind = "mediadownloader"
                         THEN ChannelVideosURL(host, id, o.lang)
                         ELSE TranscriptURL(host, id, o.lang)]

\* The head of both methods: the option loop, the defaults and the URL.
Begin(c, kind, id, opts) ==
    LET r == CallLoop(opts, 1, ZeroCallOptions)
        o == IF kind = "mediadownloader"
             THEN [lang |-> LangOrDefault(r.o.lang),
                   contentType |-> ContentTypeOrDefault(r.o.contentType)]
             ELSE [r.o EXCEPT !.lang = LangOrDefault(r.o.lang)]
        host == client[kind].options.host
        started == [calls[c] EXCEPT !.kind = kind, !.id = id, !.opts = opts]
    IN  IF r.err # NoErr
        THEN Return(started, NoRet, [msg |-> r.err, text |-> NoBody])
        ELSE [started EXCEPT
                 !.pc = "take", !.o = o,
                 !.url = IF kind = "mediadownloader"
                         THEN ChannelVideosURL(host, id, o.lang)
                         ELSE TranscriptURL(host, id, o.lang)]

\* c.GetChannelVideos(channelID, opts...) up to the limiter.
GetChannelVideos(c, ids, optSeqs) ==
    /\ calls[c].pc = "idle"
    /\ client["mediadownloader"].ok
    /\ \E id \in ids, opts \in optSeqs :
         calls' = [calls EXCEPT ![c] = Begin(c, "mediadownloader", id, opts)]
    /\ UNCHANGED <<client, newCall, strIn, strOut>>

\* c.GetTranscript(videoID, opts...) up to the limiter.
GetTranscript(c, ids, optSeqs) ==
    /\ calls[c].pc = "idle"
    /\ client["transcriptor"].ok
    /\ \E id \in ids, opts \in optSeqs :
         calls' = [calls EXCEPT ![c] = Begin(c, "transcriptor", id, opts)]
    /\ UNCHANGED <<client, newCall, strIn, strOut>>

\* Mutant: the request is built before the limiter is asked, so a URL that
\* does not parse ends the call without a token.
TakeAfterBuild(c) ==
    /\ calls[c].pc = "take"
    /\ calls' = [calls EXCEPT ![c] =
           IF NewRequestFails(calls[c].url)
           THEN Return(calls[c], NoRet,
                    [msg |-> Errorf("failed to create request: ", ParseError(calls[c].url)),
                     text |-> NoBody])
           ELSE [@ EXCEPT !.pc = "send", !.takes = @ + 1,
                          !.took = client[calls[c].kind].options.rateLimit]]
    /\ UNCHANGED <<client, newCall, strIn, strOut>>

\* (*c.options.rateLimit).Take(): the call goes on once the limiter has
\* admitted it; how long that takes is the limiter's business.
Take(c) ==
    /\ calls[c].pc = "take"
    /\ calls' = [calls EXCEPT ![c] =
           [@ EXCEPT !.pc = "send", !.takes = @ + 1,
                     !.took = client[calls[c].kind].options.rateLimit]]
    /\ UNCHANGED <<client, newCall, strIn, strOut>>

TransportError == <<"transport error">>
ReadError == <<"unexpected EOF">>
DecodeError == <<"json: cannot unmarshal">>

\* http.NewRequest, the two headers and httpClient.Do.
SendRequest(c, responses) ==
    /\ calls[c].pc = "send"
    /\ LET call == calls[c]
           cl == client[call.kind]
           req == [sent |-> TRUE, method |-> "GET", url |-> call.url,
                   key |-> cl.apiKey, host |-> cl.options.host]
           sending == [call EXCEPT !.req = req, !.sends = @ + 1,
                                   !.via = cl.options.httpClient]
       IN  IF NewRequestFails(call.url)
           THEN calls' = [calls EXCEPT ![c] =
                    Return(call, NoRet,
                        [msg |-> Errorf("failed to create request: ", ParseError(call.url)),
                         text |-> NoBody])]
           ELSE \/ calls' = [calls EXCEPT ![c] =
                       Return(sending, NoRet,
                           [msg |-> Errorf("failed to execute request: ", TransportError),
                            text |-> NoBody])]
                \/ \E resp \in responses :
                       calls' = [calls EXCEPT ![c] =
                           [sending EXCEPT !.pc = "read", !.held = TRUE, !.resp = resp]]
    /\ UNCHANGED <<client, newCall, strIn, strOut>>

\* Mutant: the status error does not carry the body.
OutcomeNoText(kind, resp) ==
    IF resp.readErr
    THEN [ret |-> NoRet,
          err |-> [msg |-> Errorf("failed to read response body: ", ReadError),
                   text |-> NoBody]]
    ELSE IF resp.status # StatusOK
    THEN [ret |-> NoRet,
          err |-> [msg |-> <<"http status code is not ok: ">>, text |-> NoBody]]
    ELSE LET d == Unmarshal(kind, resp.body)
         IN  IF ~d.ok
             THEN [ret |-> NoRet,
                   err |-> [msg |-> Errorf(IF kind = "mediadownloader"
                                            THEN "failed to unmarshal response body: "
                                            ELSE "failed to unmarshal response: ",
                                            DecodeError),
                            text |-> NoBody]]
             ELSE [ret |-> IF kind = "mediadownloader"
                           THEN [Items |-> d.v.Items, Transcript |-> NilTranscript]
                           ELSE [Items |-> <<>>,
                                 Transcript |-> [set |-> TRUE, v |-> d.v]],
                   err |-> NoCallErr]

\* Mutant: a body whose status flag is false is turned into an error.
OutcomeStatusFlag(kind, resp) ==
    IF resp.readErr
    THEN [ret |-> NoRet,
          err |-> [msg |-> Errorf("failed to read response body: ", ReadError),
                   text |-> NoBody]]
    ELSE IF resp.status # StatusOK
    THEN [ret |-> NoRet,
          err |-> [msg |-> <<"http status code is not ok: ">>, text |-> resp.body]]
    ELSE LET d == Unmarshal(kind, resp.body)
         IN  IF ~d.ok \/ (kind = "mediadownloader" /\ ~d.v.Status)
             THEN [ret |-> NoRet,
                   err |-> [msg |-> Errorf(IF kind = "mediadownloader"
                                            THEN "failed to unmarshal response body: "
                                            ELSE "failed to unmarshal response: ",
                                            DecodeError),
                            text |-> NoBody]]
             ELSE [ret |-> IF kind = "mediadownloader"
                           THEN [Items |-> d.v.Items, Transcript |-> NilTranscript]
                           ELSE [Items |-> <<>>,
                                 Transcript |-> [set |-> TRUE, v |-> d.v]],
                   err |-> NoCallErr]

\* What the method returns once it holds a response: io.ReadAll, the status
\* check and json.Unmarshal.
Outcome(kind, resp) ==
    IF resp.readErr
    THEN [ret |-> NoRet,
          err |-> [msg |-> Errorf("failed to read response body: ", ReadError),
                   text |-> NoBody]]
    ELSE IF resp.status # StatusOK
    THEN [ret |-> NoRet,
          err |-> [msg |-> <<"http status code is not ok: ">>, text |-> resp.body]]
    ELSE LET d == Unmarshal(kind, resp.body)
         IN  IF ~d.ok
             THEN [ret |-> NoRet,
                   err |-> [msg |-> Errorf(IF kind = "mediadownloader"
                                            THEN "failed to unmarshal response body: "
                                            ELSE "failed to unmarshal response: ",
                                            DecodeError),
                            text |-> NoBody]]
             ELSE [ret |-> IF kind = "mediadownloader"
                           THEN [Items |-> d.v.Items, Transcript |-> NilTranscript]
                           ELSE [Items |-> <<>>,
                                 Transcript |-> [set |-> TRUE, v |-> d.v]],
                   err |-> NoCallErr]

\* Mutant: the body is closed at the end of the method and not by a defer,
\* so an early return leaves it open.
ReadResponseNoDefer(c) ==
    /\ calls[c].pc = "read"
    /\ LET call == calls[c]
           out == Outcome(call.kind, call.resp)
       IN  calls' = [calls EXCEPT ![c] =
               [Return(call, out.ret, out.err) EXCEPT
                   !.closes = IF out.err.msg = <<>> THEN @ + 1 ELSE @]]
    /\ UNCHANGED <<client, newCall, strIn, strOut>>

\* defer res.Body.Close() and the rest of the method; the deferred Close
\* runs as the method returns.
ReadResponse(c) ==
    /\ calls[c].pc = "read"
    /\ LET call == calls[c]
           out == Outcome(call.kind, call.resp)
       IN  calls' = [calls EXCEPT ![c] =
               [Return(call, out.ret, out.err) EXCEPT !.closes = @ + 1]]
    /\ UNCHANGED <<client, newCall, strIn, strOut>>

(***************************************************************************)
(* Inputs of a call.                                                       *)
(***************************************************************************)
IDs == {<<"c">>, <<CTL>>}
Langs == {<<>>, <<"f", "r">>}
ContentTypes == {ContentTypeVideos, ContentTypeShorts, ContentTypeLive, ContentTypeUndefined}

ChannelVideosOptions ==
    {OptWithLang(l) : l \in Langs} \cup {OptWithContentType(t) : t \in ContentTypes}
TranscriptOptions == {OptWithLang(l) : l \in Langs}

ChannelVideosOptionSeqs == SeqsUpTo(ChannelVideosOptions, MaxCallOpts)
TranscriptOptionSeqs == SeqsUpTo(TranscriptOptions, MaxCallOpts)

V1 == <<"v", "1">>
V2 == <<"v", "2">>
Tok == <<"t">>

Bodies ==
    { Body(FALSE, <<>>),
      Body(TRUE, <<>>),
      Body(TRUE, <<JBool("status", TRUE), JStr("nextToken", Tok), JArr("items", <<V1, V2>>)>>),
      Body(TRUE, <<JArr("items", <<V2, V1>>), JBool("status", FALSE)>>),
      Body(TRUE, <<JArr("items", <<V1, V2>>), JStr("message", Tok)>>),
      Body(TRUE, <<JStr("items", Tok)>>),
      Body(TRUE, <<JStr("title", Tok), JArr("transcription", <<V1, V2>>)>>),
      Body(TRUE, <<JArr("transcription", <<V2>>), JNull("title")>>) }

Statuses == {StatusOK, 404}

Responses == [status : Statuses, body : Bodies, readErr : BOOLEAN]

\* The clients the calls run on: what New returns for these options.
CallConfigs == {<<>>, <<OptWithHost(<<"b">>), OptWithRateLimit(5), OptWithHttpClient("hcA")>>}

Constructed(kind, opts) ==
    LET r == NewImpl(kind, <<"k">>, opts)
    IN  [client |-> r.client,
         newCall |-> [called |-> TRUE, apiKey |-> <<"k">>, opts |-> opts,
                      err |-> r.err, applied |-> r.applied]]

CallInit(callers) ==
    /\ \E cfg \in [Kinds -> CallConfigs] :
         /\ client = [k \in Kinds |-> Constructed(k, cfg[k]).client]
         /\ newCall = [k \in Kinds |-> Constructed(k, cfg[k]).newCall]
    /\ calls = [c \in callers |-> IdleCall]
    /\ strIn = ZeroResponseTR
    /\ strOut = [called |-> FALSE, s |-> <<>>]

Init == CallInit({1})

Next ==
    \/ \E c \in Callers : GetChannelVideos(c, IDs, ChannelVideosOptionSeqs)
    \/ \E c \in Callers : GetTranscript(c, IDs, TranscriptOptionSeqs)
    \/ \E c \in Callers : Take(c)
    \/ \E c \in Callers : SendRequest(c, Responses)
    \/ \E c \in Callers : ReadResponse(c)

Spec == Init /\ [][Next]_vars

(***************************************************************************)
(* Concurrent calls on one client of each package.                         *)
(***************************************************************************)
ConcIDs == {<<"c">>}
ConcChannelVideosOptionSeqs ==
    {<<>>, <<OptWithLang(<<"f", "r">>)>>, <<OptWithContentType(ContentTypeShorts)>>}
ConcTranscriptOptionSeqs == {<<>>, <<OptWithLang(<<"f", "r">>)>>}
ConcResponses ==
    { [status |-> StatusOK, readErr |-> FALSE,
       body |-> Body(TRUE, <<JStr("title", Tok), JArr("items", <<V1, V2>>),
                             JArr("transcription", <<V2, V1>>)>>)],
      [status |-> 404, readErr |-> FALSE, body |-> Body(FALSE, <<>>)] }

ConcInit == CallInit(1..NumCallers)

ConcNext ==
    \/ \E c \in Callers : GetChannelVideos(c, ConcIDs, ConcChannelVideosOptionSeqs)
    \/ \E c \in Callers : GetTranscript(c, ConcIDs, ConcTranscriptOptionSeqs)
    \/ \E c \in Callers : Take(c)
    \/ \E c \in Callers : SendRequest(c, ConcResponses)
    \/ \E c \in Callers : ReadResponse(c)

ConcSpec == ConcInit /\ [][ConcNext]_vars

(***************************************************************************)
(* GetTranscriptResponse.String().                                         *)
(***************************************************************************)
\* for _, t := range g.Transcription { subtitles += t.Subtitle + " " }
RECURSIVE ConcatSubtitles(_, _, _)
ConcatSubtitles(transcription, i, subtitles) ==
    IF i > Len(transcription) THEN subtitles
    ELSE ConcatSubtitles(transcription, i + 1,
             subtitles \o transcription[i].Subtitle \o <<" ">>)

\* Mutant: the trailing separator is not cut off.
StringNoCut(g) == ConcatSubtitles(g.Transcription, 1, <<>>)

String(g) ==
    LET subtitles == ConcatSubtitles(g.Transcription, 1, <<>>)
    IN  IF Len(subtitles) = 0 THEN <<>>
        ELSE SubSeq(subtitles, 1, Len(subtitles) - 1)

Subtitles == {<<>>, <<"a">>, <<" ">>, <<"b", " ">>}

NotRun == [called |-> FALSE, s |-> <<>>]

StringInit ==
    /\ client = [k \in Kinds |-> NoClient]
    /\ newCall = [k \in Kinds |-> NotCalled]
    /\ calls = <<>>
    /\ \E subs \in SeqsUpTo(Subtitles, MaxSegments) :
         strIn = [Title |-> Tok,
                  Transcription |-> [i \in 1..Len(subs) |-> Transcription(subs[i])]]
    /\ strOut = NotRun

\* g.String()
CallString ==
    /\ ~strOut.called
    /\ strOut' = [called |-> TRUE, s |-> String(strIn)]
    /\ UNCHANGED <<client, newCall, calls, strIn>>

StringNext == CallString

StringSpec == StringInit /\ [][StringNext]_vars

NewInit ==
    /\ client = [k \in Kinds |-> NoClient]
    /\ newCall = [k \in Kinds |-> NotCalled]
    /\ calls = <<>>
    /\ strIn = ZeroResponseTR
    /\ strOut = [called |-> FALSE, s |-> <<>>]

NewNext == \E kind \in Kinds : New(kind)

NewSpec == NewInit /\ [][NewNext]_vars

(***************************************************************************)
(* Construction: claims C1, C2, C3 (checked under NewSpec).                *)
(***************************************************************************)
\* Index of the first option of opts that fails, 0 when every option validates.
FirstInvalid(opts) ==
    IF \E i \in 1..Len(opts) : OptionErr(opts[i]) # NoErr
    THEN CHOOSE i \in 1..Len(opts) :
            /\ OptionErr(opts[i]) # NoErr
            /\ \A j \in 1..(i - 1) : OptionErr(opts[j]) = NoErr
    ELSE 0

\* Index of the last option of opts with operation op, 0 when there is none.
LastOf(opts, op) ==
    IF \E i \in 1..Len(opts) : opts[i].op = op
    THEN CHOOSE i \in 1..Len(opts) :
            /\ opts[i].op = op
            /\ \A j \in (i + 1)..Len(opts) : opts[j].op # op
    ELSE 0

\* C1: for both clients and every option sequence, New succeeds iff every
\* option validates; the options are invoked in call order, none after the
\* first failing one; a failed New returns an error and no client.
C1_NewSucceedsIffAllValid ==
    \A k \in Kinds :
        newCall[k].called =>
            LET opts == newCall[k].opts
                f == FirstInvalid(opts)
                n == IF f = 0 THEN Len(opts) ELSE f
            IN  /\ (client[k].ok /\ newCall[k].err = NoErr) <=> (f = 0)
                /\ newCall[k].applied = [j \in 1..n |-> j]
                /\ (f # 0) => (newCall[k].err # NoErr /\ client[k] = NoClient)

\* Witness of C1: a construction failed on an option that was followed by
\* another option, which was not invoked.
C1_Witness ==
    \E k \in Kinds :
        /\ newCall[k].called
        /\ newCall[k].err # NoErr
        /\ Len(newCall[k].applied) < Len(newCall[k].opts)

\* C2 as stated: the error New returns is the very error value the first
\* invalid option produced.
C2_ErrorUnchanged ==
    \A k \in Kinds :
        (newCall[k].called /\ FirstInvalid(newCall[k].opts) # 0) =>
            newCall[k].err = OptionErr(newCall[k].opts[FirstInvalid(newCall[k].opts)])

\* C2 amended: the error New returns is the first invalid option's error
\* wrapped in one new layer "bad option: "; unwrapping it once yields the
\* option's error unchanged.
C2_ErrorWrapsFirstInvalid ==
    \A k \in Kinds :
        (newCall[k].called /\ FirstInvalid(newCall[k].opts) # 0) =>
            /\ newCall[k].err # NoErr
            /\ Head(newCall[k].err) = "bad option: "
            /\ Unwrap(newCall[k].err) =
                   OptionErr(newCall[k].opts[FirstInvalid(newCall[k].opts)])

\* Witness of C2: a construction failed on its second option.
C2_Witness ==
    \E k \in Kinds :
        /\ newCall[k].called
        /\ FirstInvalid(newCall[k].opts) = 2
        /\ newCall[k].err # NoErr

\* The value a field gets from the last option that set it.
LastHost(opts) == opts[LastOf(opts, "WithHost")].host
LastRate(opts) == opts[LastOf(opts, "WithRateLimit")].rl
LastHttpClient(opts) == opts[LastOf(opts, "WithHttpClient")].hc

RateAndTransportLastOrDefault(k) ==
    LET opts == newCall[k].opts
        o == client[k].options
    IN  /\ o.rateLimit = IF LastOf(opts, "WithRateLimit") = 0
                         THEN DefaultRate(k) ELSE LastRate(opts)
        /\ o.httpClient = IF LastOf(opts, "WithHttpClient") = 0
                          THEN DefaultClient ELSE LastHttpClient(opts)

\* C3 as stated: after a successful New every field holds the value of the
\* last option that set it, and its default exactly when no option set it,
\* also when the host option supplies the empty string.
C3_FieldsLastOrDefaultStrict ==
    \A k \in Kinds :
        (newCall[k].called /\ client[k].ok) =>
            /\ client[k].options.host =
                   IF LastOf(newCall[k].opts, "WithHost") = 0
                   THEN DefaultHost(k) ELSE LastHost(newCall[k].opts)
            /\ RateAndTransportLastOrDefault(k)

\* C3 amended: after a successful New the rate limiter and the transport hold
\* the value of the last option that set them and their default exactly when
\* no option set them; the host holds the value of the last host option when
\* that value is not empty, and the default host of the package when no
\* option set it or the last host option supplied the empty string.
C3_FieldsLastOrDefault ==
    \A k \in Kinds :
        (newCall[k].called /\ client[k].ok) =>
            /\ client[k].apiKey = newCall[k].apiKey
            /\ client[k].options.host =
                   IF \/ LastOf(newCall[k].opts, "WithHost") = 0
                      \/ LastHost(newCall[k].opts) = <<>>
                   THEN DefaultHost(k) ELSE LastHost(newCall[k].opts)
            /\ RateAndTransportLastOrDefault(k)

\* Witness of C3: a successful construction whose options set the host twice,
\* the last time to a non-empty value.
C3_Witness ==
    \E k \in Kinds :
        /\ newCall[k].called /\ client[k].ok
        /\ Len(newCall[k].opts) = 2
        /\ \A i \in 1..2 : newCall[k].opts[i].op = "WithHost"
        /\ newCall[k].opts[1].host # newCall[k].opts[2].host
        /\ client[k].options.host = newCall[k].opts[2].host

(***************************************************************************)
(* Calls: claims C4, C5, C7, C9, C10 (checked under Spec) and C8 (checked  *)
(* under ConcSpec).                                                        *)
(***************************************************************************)
\* The language a call asks for: that of its last WithLang option, "en" when
\* there is none or when it is empty.
ExpectedLang(opts) ==
    IF LastOf(opts, "WithLang") = 0 THEN <<"e", "n">>
    ELSE IF opts[LastOf(opts, "WithLang")].lang = <<>> THEN <<"e", "n">>
    ELSE opts[LastOf(opts, "WithLang")].lang

IsStatusError(call) ==
    /\ call.err.msg = <<"http status code is not ok: ">>
    /\ call.err.text = call.resp.body
    /\ call.ret = NoRet

\* C4 as stated: every call that was handed a response whose status is not
\* 200 returns the status error carrying the exact body and no result, also
\* when the body cannot be read completely.
C4_Non200AlwaysStatusError ==
    \A c \in Callers :
        (calls[c].pc = "done" /\ calls[c].held /\ calls[c].resp.status # StatusOK) =>
            IsStatusError(calls[c])

\* C4 amended: every call that was handed a response whose status is not 200
\* and whose body was read completely returns the status error carrying the
\* exact body and no result; when reading the body fails the call returns
\* the read error and no result, whatever the status.
C4_Non200StatusErrorWhenRead ==
    \A c \in Callers :
        (calls[c].pc = "done" /\ calls[c].held) =>
            /\ (calls[c].resp.status # StatusOK /\ ~calls[c].resp.readErr) =>
                   IsStatusError(calls[c])
            /\ calls[c].resp.readErr =>
                   /\ Head(calls[c].err.msg) = "failed to read response body: "
                   /\ calls[c].err.text = NoBody
                   /\ calls[c].ret = NoRet

\* Witness of C4: a call returned after a 404 whose body, a non-empty text,
\* was read completely.
C4_Witness ==
    \E c \in Callers :
        /\ calls[c].pc = "done" /\ calls[c].held
        /\ calls[c].resp.status = 404 /\ ~calls[c].resp.readErr
        /\ calls[c].resp.body.members # <<>>

\* C5: the request GetChannelVideos sends is a GET to
\* https://{host}/v2/channel/videos?channelId={channelID}&lang={lang} with the
\* client's key and host as headers, lang being "en" when the lang option is
\* omitted or empty; it is a function of the channel ID and the lang options
\* alone, so the contentType option never shows in it.
C5_ChannelVideosRequest ==
    \A c \in Callers :
        (calls[c].kind = "mediadownloader" /\ calls[c].req.sent) =>
            /\ calls[c].req.method = "GET"
            /\ calls[c].req.url =
                   <<"h", "t", "t", "p", "s", ":", "/", "/">>
                       \o client["mediadownloader"].options.host
                       \o ChannelVideosPath \o calls[c].id
                       \o <<"&", "l", "a", "n", "g", "=">>
                       \o ExpectedLang(calls[c].opts)
            /\ calls[c].req.key = client["mediadownloader"].apiKey
            /\ calls[c].req.host = client["mediadownloader"].options.host

\* Witness of C5: a request was sent by a call that asked for shorts and gave
\* no language.
C5_Witness ==
    \E c \in Callers :
        /\ calls[c].kind = "mediadownloader" /\ calls[c].req.sent
        /\ LastOf(calls[c].opts, "WithLang") = 0
        /\ \E i \in 1..Len(calls[c].opts) :
               /\ calls[c].opts[i].op = "WithContentType"
               /\ calls[c].opts[i].ct = ContentTypeShorts

\* A body is well formed for the channel-videos schema: valid JSON whose
\* status, nextToken and items members have the types of the schema.
WellFormedChannelVideos(body) ==
    /\ body.syntaxOk
    /\ \A i \in 1..Len(body.members) :
           LET m == body.members[i]
           IN  /\ m.key = "status" => m.t \in {"bool", "null"}
               /\ m.key = "nextToken" => m.t \in {"string", "null"}
               /\ m.key = "items" => m.t \in {"array", "null"}

\* The ids of the items array of a body, in the order of the text.
ItemIDs(body) ==
    LET is == {i \in 1..Len(body.members) :
                  body.members[i].key = "items" /\ body.members[i].t = "array"}
    IN  IF is = {} THEN <<>>
        ELSE body.members[CHOOSE i \in is : \A j \in is : j <= i].a

\* C7: after a 200 with a well-formed channel-videos body GetChannelVideos
\* returns no error and exactly the items of the body in their order,
\* whatever the status flag and the nextToken of the body are, and the
\* transport was asked once (no second page).
C7_ItemsInOrder ==
    \A c \in Callers :
        (/\ calls[c].kind = "mediadownloader" /\ calls[c].pc = "done" /\ calls[c].held
         /\ calls[c].resp.status = StatusOK /\ ~calls[c].resp.readErr
         /\ WellFormedChannelVideos(calls[c].resp.body)) =>
            /\ calls[c].err = NoCallErr
            /\ Len(calls[c].ret.Items) = Len(ItemIDs(calls[c].resp.body))
            /\ \A i \in 1..Len(calls[c].ret.Items) :
                   calls[c].ret.Items[i].ID = ItemIDs(calls[c].resp.body)[i]
            /\ DOMAIN calls[c].ret = {"Items", "Transcript"}
            /\ ~calls[c].ret.Transcript.set
            /\ calls[c].sends = 1

\* Witness of C7: a call returned two items, in the order of a body whose
\* status flag is false.
C7_Witness ==
    \E c \in Callers :
        /\ calls[c].kind = "mediadownloader" /\ calls[c].pc = "done"
        /\ calls[c].err = NoCallErr
        /\ calls[c].ret.Items = <<Video(V2), Video(V1)>>
        /\ \E i \in 1..Len(calls[c].resp.body.members) :
               /\ calls[c].resp.body.members[i].key = "status"
               /\ ~calls[c].resp.body.members[i].b

\* The configuration of the clients is what New returned for the options
\* they were constructed with.
ConfigAsConstructed ==
    \A k \in Kinds : client[k] = NewImpl(k, newCall[k].apiKey, newCall[k].opts).client

\* Each call's options, request and result are those of its own arguments,
\* the configuration and the response it was handed.
CallsIsolated ==
    \A c \in Callers :
        /\ calls[c].pc \notin {"idle"} =>
               /\ calls[c].o.lang = ExpectedLang(calls[c].opts)
               /\ calls[c].kind = "mediadownloader" =>
                      calls[c].o.contentType =
                          IF LastOf(calls[c].opts, "WithContentType") = 0
                          THEN "videos"
                          ELSE calls[c].opts[LastOf(calls[c].opts, "WithContentType")].ct
        /\ calls[c].req.sent =>
               /\ calls[c].req.url =
                      SchemePrefix \o client[calls[c].kind].options.host
                          \o (IF calls[c].kind = "mediadownloader"
                              THEN ChannelVideosPath ELSE TranscriptPath)
                          \o calls[c].id \o LangParam \o ExpectedLang(calls[c].opts)
               /\ calls[c].req.key = client[calls[c].kind].apiKey
               /\ calls[c].req.host = client[calls[c].kind].options.host
               /\ calls[c].via = client[calls[c].kind].options.httpClient
        /\ calls[c].takes > 0 => calls[c].took = client[calls[c].kind].options.rateLimit
        /\ (calls[c].pc = "done" /\ calls[c].held) =>
               /\ calls[c].ret = Outcome(calls[c].kind, calls[c].resp).ret
               /\ calls[c].err = Outcome(calls[c].kind, calls[c].resp).err

\* C8: under any interleaving of concurrent calls the configuration of a
\* client is never modified after New returned, and each call's request and
\* result depend only on its own arguments, the configuration and the
\* response the transport gave it.
C8_ConfigFixedCallsIsolated ==
    /\ [](ConfigAsConstructed /\ CallsIsolated)
    /\ [][client' = client]_vars

\* Witness of C8: two calls on the same client with different options, one
\* returned and one holding a different response.
C8_Witness ==
    \E c, d \in Callers :
        /\ c # d
        /\ calls[c].kind = calls[d].kind
        /\ calls[c].pc = "done" /\ calls[c].held
        /\ calls[d].pc = "read"
        /\ calls[c].o.lang # calls[d].o.lang
        /\ calls[c].resp # calls[d].resp

\* C9: a call takes one token, before the transport is invoked; the
\* transport is invoked at most once, never again after a failure; a call
\* that fails while constructing the request has taken its token and never
\* reaches the transport; a call whose request option fails takes no token.
C9_TakeOnceBeforeTransport ==
    \A c \in Callers :
        /\ calls[c].takes <= 1 /\ calls[c].sends <= 1
        /\ calls[c].sends = 1 => calls[c].takes = 1
        /\ calls[c].pc \in {"idle", "take"} => (calls[c].takes = 0 /\ calls[c].sends = 0)
        /\ calls[c].pc \in {"send", "read"} => calls[c].takes = 1
        /\ calls[c].pc = "send" => calls[c].sends = 0
        /\ calls[c].pc = "read" => calls[c].sends = 1
        /\ calls[c].pc = "done" =>
               /\ calls[c].err.msg # NoErr /\ Head(calls[c].err.msg) = "bad option: " =>
                      (calls[c].takes = 0 /\ calls[c].sends = 0)
               /\ ~(calls[c].err.msg # NoErr /\ Head(calls[c].err.msg) = "bad option: ") =>
                      calls[c].takes = 1
               /\ NewRequestFails(calls[c].url) =>
                      (calls[c].takes = 1 /\ calls[c].sends = 0 /\ ~calls[c].held)
               /\ ~NewRequestFails(calls[c].url) /\ calls[c].takes = 1 =>
                      calls[c].sends = 1

\* Witness of C9: a call returned with the error of a request that could not
\* be constructed, one token taken and the transport never invoked.
C9_Witness ==
    \E c \in Callers :
        /\ calls[c].pc = "done"
        /\ calls[c].err.msg # NoErr
        /\ Head(calls[c].err.msg) = "failed to create request: "
        /\ calls[c].takes = 1 /\ calls[c].sends = 0

\* C10: whenever the transport handed a response to a call, its body is
\* closed exactly once by the time the call returns, on every outcome, and
\* not before; when the transport fails nothing is held and nothing is closed.
C10_BodyClosedOnce ==
    \A c \in Callers :
        /\ calls[c].closes <= 1
        /\ ~calls[c].held => calls[c].closes = 0
        /\ calls[c].pc = "read" => (calls[c].held /\ calls[c].closes = 0)
        /\ (calls[c].pc = "done" /\ calls[c].held) => calls[c].closes = 1

\* Witness of C10: a call returned the read error of a body it could not read
\* completely, the body closed once.
C10_Witness ==
    \E c \in Callers :
        /\ calls[c].pc = "done" /\ calls[c].held
        /\ calls[c].resp.readErr
        /\ calls[c].closes = 1

(***************************************************************************)
(* String(): claim C6 (checked under StringSpec).                          *)
(***************************************************************************)
\* The texts joined with one space between consecutive ones.
RECURSIVE JoinWithSpace(_)
JoinWithSpace(texts) ==
    IF Len(texts) = 0 THEN <<>>
    ELSE IF Len(texts) = 1 THEN texts[1]
    ELSE texts[1] \o <<" ">> \o JoinWithSpace(Tail(texts))

\* C6: for every sequence of segments String() is the subtitle texts joined
\* with exactly one space between consecutive segments and no trailing
\* separator; zero segments yield the empty string.
C6_StringJoinsSubtitles ==
    strOut.called =>
        /\ strOut.s = JoinWithSpace([i \in 1..Len(strIn.Transcription) |->
                                        strIn.Transcription[i].Subtitle])
        /\ strIn.Transcription = <<>> => strOut.s = <<>>

\* Witness of C6: String() ran on three segments, one with an empty subtitle
\* and one whose subtitle ends in a space.
C6_Witness ==
    /\ strOut.called
    /\ Len(strIn.Transcription) = 3
    /\ \E i \in 1..3 : strIn.Transcription[i].Subtitle = <<>>
    /\ strIn.Transcription[3].Subtitle = <<"b", " ">>

====
